---- MODULE Spec2Model ----
(***************************************************************************)
(* Model of the A/B-test decision pipeline of ab_utils.py: setup_logger,   *)
(* check_normality, check_homogeneity, apply_parametric,                   *)
(* apply_nonparametric and apply_ab_test.                                  *)
(*                                                                         *)
(* The scipy tests (shapiro, levene, ttest_ind, mannwhitneyu) and the kde  *)
(* plot are the environment: each is an unknown but deterministic function *)
(* of its arguments.  The first call with given arguments picks its        *)
(* outcome nondeterministically (an exception, a NaN result, or a          *)
(* p-value); the outcome is remembered in libResults and every later call  *)
(* with the same arguments gets it again.  A test's outcome stands for its *)
(* (statistic, p-value) pair; p-values are in hundredths.  The values of   *)
(* the observations are not interpreted: a sample matters by its identity  *)
(* and its size, and the outcomes range over what the tests can return on  *)
(* some sample of that size.                                               *)
(***************************************************************************)
EXTENDS Integers, Sequences, FiniteSets, TLC

VARIABLES
    df,            \* the dataframe given to apply_ab_test (rows group/Purchase)
    handlers,      \* logging state: logger name -> sequence of attached handlers
    libResults,    \* outcomes the library functions have produced so far
    pc,            \* position inside apply_ab_test ("idle" when not running)
    plot,          \* apply_ab_test's plot argument
    query1,        \* apply_ab_test's local query1
    query2,        \* apply_ab_test's local query2
    normality1,    \* apply_ab_test's local normality1
    normality2,    \* apply_ab_test's local normality2
    homogeneity,   \* apply_ab_test's local homogeneity
    result,        \* apply_ab_test's local result
    raised,        \* an exception escaped a top-level call
    calls,         \* the decision steps run by the current top-level call
    log,           \* the records emitted by the current top-level call
    ncalls,        \* number of top-level calls started
    seen,          \* first outcome of every decision step, by arguments
    stable         \* no repeated step differed from its first run

vars == <<df, handlers, libResults, pc, plot, query1, query2, normality1,
          normality2, homogeneity, result, raised, calls, log, ncalls,
          seen, stable>>

(***************************************************************************)
(* Bounds                                                                  *)
(***************************************************************************)
MaxCalls == 2      \* top-level calls per behaviour
MaxInvocations == 1    \* apply_ab_test invocations per behaviour of the pipeline
MaxObs == 3        \* observations of the larger group of a dataframe

(***************************************************************************)
(* Program constants                                                       *)
(***************************************************************************)
Threshold == 5         \* 0.05, in hundredths
ShapiroMinLen == 3     \* shapiro rejects samples with fewer observations

ModuleLogger == "ab_utils"
LoggerNames == {"ab_utils", "other"}
Groups == {"control", "test"}
\* the two groups compared: (col_value1, col_value2)
GroupPairs == {<<"control", "test">>}

(***************************************************************************)
(* Library outcomes                                                        *)
(***************************************************************************)
PValues == {Threshold - 1, Threshold, Threshold + 1}
Raise == [kind |-> "raise", p |-> 0]
NaNResult == [kind |-> "nan", p |-> 0]
Num(p) == [kind |-> "num", p |-> p]
Outcomes == {Raise, NaNResult} \cup {Num(p) : p \in PValues}

\* float comparison a < b: false when a is NaN
Lt(o, t) == o.kind = "num" /\ o.p < t

(***************************************************************************)
(* Dataframes: n control rows, one control row with a missing value, and   *)
(* MaxObs test rows.                                                       *)
(***************************************************************************)
Row(g, v, na) == [group |-> g, purchase |-> v, isna |-> na]
MakeDf(n) ==
    [i \in 1..n |-> Row("control", 10 + i, FALSE)]
        \o <<Row("control", 0, TRUE)>>
        \o [i \in 1..MaxObs |-> Row("test", 20 + i, FALSE)]
Datasets == {MakeDf(n) : n \in {0, ShapiroMinLen - 1, MaxObs}}

\* df.loc[df[col_name] == col_value, col_main].dropna()
Extract(d, g) ==
    LET keep(r) == r.group = g /\ ~r.isna
        rows == SelectSeq(d, keep)
    IN  [i \in 1..Len(rows) |-> rows[i].purchase]

(***************************************************************************)
(* Logging                                                                 *)
(***************************************************************************)
\* variant: the handlers of the logger are not cleared before one is added
setup_logger_no_clear(name, h) ==
    [h EXCEPT ![ModuleLogger] = Append(@, "stdout")]

\* setup_logger(name): always configures logging.getLogger(__name__)
setup_logger(name, h) ==
    LET cleared == [h EXCEPT ![ModuleLogger] = <<>>]
    IN  [cleared EXCEPT ![ModuleLogger] = Append(@, "stdout")]

\* logg.<level>(msg): one copy of the record per attached handler
Emit(h, level, msg) ==
    [level |-> level, msg |-> msg, copies |-> Len(h[ModuleLogger])]

(***************************************************************************)
(* The library: outcomes by arguments                                      *)
(***************************************************************************)
Plotted == [kind |-> "plotted", p |-> 0]
\* the outcome field of a call that runs no test
NoTest == [kind |-> "none", p |-> 0]

LibKey(fn, args, flag) == <<fn, args, flag>>

Possible(key) ==
    IF key[1] = "shapiro"
    THEN IF Len(key[2][1]) < ShapiroMinLen THEN {Raise} ELSE Outcomes
    ELSE IF key[1] = "kde" THEN {Raise, Plotted} ELSE Outcomes

LibOutcomes(key) ==
    IF key \in DOMAIN libResults THEN {libResults[key]} ELSE Possible(key)

Remember(lr, key, o) ==
    IF key \in DOMAIN lr THEN lr ELSE lr @@ (key :> o)

(***************************************************************************)
(* The decision steps.  o is the outcome of the step's library test, h the *)
(* logging state at the call.  Each yields its return value (ret), whether *)
(* an exception escaped it (exc), the records it emitted (logs), the       *)
(* logging state and its arguments as it leaves them.                      *)
(***************************************************************************)
StepResult(fn, args, flag, key, o, ret, exc, logs, h, after) ==
    [fn |-> fn, args |-> args, flag |-> flag, lib |-> key, out |-> o,
     ret |-> ret, exc |-> exc, logs |-> logs, handlers |-> h, after |-> after,
     repeat |-> FALSE]

\* the shared tail of the four steps: log the statistics, then threshold
Decide(o, h, name) ==
    IF ~Lt(o, Threshold)
    THEN [ret |-> TRUE,
          logs |-> <<Emit(h, "INFO", "Test Stat p_value"),
                     Emit(h, "DEBUG", name \o " cannot be rejected")>>]
    ELSE [ret |-> FALSE,
          logs |-> <<Emit(h, "INFO", "Test Stat p_value"),
                     Emit(h, "DEBUG", name \o " was rejected")>>]

\* variant: an exception of shapiro is not caught
check_normality_surfacing(query, plt, o, kde, h) ==
    LET logg == setup_logger(ModuleLogger, h)
        key == LibKey("shapiro", <<query>>, FALSE)
    IN  IF o = Raise
        THEN StepResult("check_normality", <<query>>, plt, key, o, FALSE, TRUE,
                 <<>>, logg, <<query>>)
        ELSE IF plt /\ kde = Raise
        THEN StepResult("check_normality", <<query>>, plt, key, o, FALSE, FALSE,
                 <<Emit(logg, "INFO", "Test Stat p_value"),
                   Emit(logg, "ERROR", "Normality cannot checked")>>,
                 logg, <<query>>)
        ELSE LET d == Decide(o, logg, "Normality Hypothesis")
             IN  StepResult("check_normality", <<query>>, plt, key, o, d.ret,
                     FALSE, d.logs, logg, <<query>>)

\* variant: the sample is consumed by the check
check_normality_consuming(query, plt, o, kde, h) ==
    LET logg == setup_logger(ModuleLogger, h)
        key == LibKey("shapiro", <<query>>, FALSE)
    IN  IF o = Raise
        THEN StepResult("check_normality", <<query>>, plt, key, o, FALSE, FALSE,
                 <<Emit(logg, "ERROR", "Normality cannot checked")>>,
                 logg, <<query>>)
        ELSE IF plt /\ kde = Raise
        THEN StepResult("check_normality", <<query>>, plt, key, o, FALSE, FALSE,
                 <<Emit(logg, "INFO", "Test Stat p_value"),
                   Emit(logg, "ERROR", "Normality cannot checked")>>,
                 logg, <<query>>)
        ELSE LET d == Decide(o, logg, "Normality Hypothesis")
             IN  StepResult("check_normality", <<query>>, plt, key, o, d.ret,
                     FALSE, d.logs, logg, <<<<>>>>)

check_normality(query, plt, o, kde, h) ==
    LET logg == setup_logger(ModuleLogger, h)
        key == LibKey("shapiro", <<query>>, FALSE)
    IN  IF o = Raise
        THEN StepResult("check_normality", <<query>>, plt, key, o, FALSE, FALSE,
                 <<Emit(logg, "ERROR", "Normality cannot checked")>>,
                 logg, <<query>>)
        ELSE IF plt /\ kde = Raise
        THEN StepResult("check_normality", <<query>>, plt, key, o, FALSE, FALSE,
                 <<Emit(logg, "INFO", "Test Stat p_value"),
                   Emit(logg, "ERROR", "Normality cannot checked")>>,
                 logg, <<query>>)
        ELSE LET d == Decide(o, logg, "Normality Hypothesis")
             IN  StepResult("check_normality", <<query>>, plt, key, o, d.ret,
                     FALSE, d.logs, logg, <<query>>)

check_homogeneity(q1, q2, o, h) ==
    LET logg == setup_logger(ModuleLogger, h)
        key == LibKey("levene", <<q1, q2>>, FALSE)
    IN  IF o = Raise
        THEN StepResult("check_homogeneity", <<q1, q2>>, FALSE, key, o, FALSE,
                 FALSE,
                 <<Emit(logg, "ERROR", "Variance Homogeneity cannot checked")>>,
                 logg, <<q1, q2>>)
        ELSE LET d == Decide(o, logg, "Variance Homogeneity")
             IN  StepResult("check_homogeneity", <<q1, q2>>, FALSE, key, o,
                     d.ret, FALSE, d.logs, logg, <<q1, q2>>)

\* variant: Student's t-test whatever homogen is
ParametricKeyStudent(q1, q2, homogen) == LibKey("ttest_ind", <<q1, q2>>, TRUE)

\* the key names the test variant run: equal_var = homogen
ParametricKey(q1, q2, homogen) == LibKey("ttest_ind", <<q1, q2>>, homogen)

apply_parametric(q1, q2, homogen, o, h) ==
    LET logg == setup_logger(ModuleLogger, h)
        key == ParametricKey(q1, q2, homogen)
        start == Emit(logg, "INFO", "Parametric test is starting")
    IN  IF o = Raise
        THEN StepResult("apply_parametric", <<q1, q2>>, homogen, key, o, FALSE,
                 FALSE,
                 <<start, Emit(logg, "ERROR", "Parametric Test cannot checked")>>,
                 logg, <<q1, q2>>)
        ELSE LET d == Decide(o, logg, "Main Hypothesis")
             IN  StepResult("apply_parametric", <<q1, q2>>, homogen, key, o,
                     d.ret, FALSE, <<start>> \o d.logs, logg, <<q1, q2>>)

\* variant: an exception of mannwhitneyu is not caught
apply_nonparametric_uncaught(q1, q2, o, h) ==
    LET logg == setup_logger(ModuleLogger, h)
        key == LibKey("mannwhitneyu", <<q1, q2>>, FALSE)
        start == Emit(logg, "INFO", "Non-Parametric test is starting")
    IN  IF o = Raise
        THEN StepResult("apply_nonparametric", <<q1, q2>>, FALSE, key, o, FALSE,
                 TRUE, <<start>>, logg, <<q1, q2>>)
        ELSE LET d == Decide(o, logg, "Main Hypothesis")
             IN  StepResult("apply_nonparametric", <<q1, q2>>, FALSE, key, o,
                     d.ret, FALSE, <<start>> \o d.logs, logg, <<q1, q2>>)

apply_nonparametric(q1, q2, o, h) ==
    LET logg == setup_logger(ModuleLogger, h)
        key == LibKey("mannwhitneyu", <<q1, q2>>, FALSE)
        start == Emit(logg, "INFO", "Non-Parametric test is starting")
    IN  IF o = Raise
        THEN StepResult("apply_nonparametric", <<q1, q2>>, FALSE, key, o, FALSE,
                 FALSE,
                 <<start, Emit(logg, "ERROR", "Parametric Test cannot checked")>>,
                 logg, <<q1, q2>>)
        ELSE LET d == Decide(o, logg, "Main Hypothesis")
             IN  StepResult("apply_nonparametric", <<q1, q2>>, FALSE, key, o,
                     d.ret, FALSE, <<start>> \o d.logs, logg, <<q1, q2>>)

(***************************************************************************)
(* Bookkeeping of a finished step                                          *)
(***************************************************************************)
StepKey(r) == <<r.fn, r.args, r.flag>>
StepValue(r) == [out |-> r.out, ret |-> r.ret, exc |-> r.exc]

\* the call record kept of a step: was it run before on these arguments?
Noted(r) == [r EXCEPT !.repeat = StepKey(r) \in DOMAIN seen]

Observe(r) ==
    /\ seen' = Remember(seen, StepKey(r), StepValue(r))
    /\ stable' = (/\ stable
                  /\ r.after = r.args
                  /\ StepKey(r) \in DOMAIN seen => seen[StepKey(r)] = StepValue(r))

\* the kde plot is drawn only when plot is set and shapiro returned
KdeKey(query) == LibKey("kde", <<query>>, FALSE)
KdeOutcomes(query, plt, o) ==
    IF plt /\ o # Raise THEN LibOutcomes(KdeKey(query)) ELSE {Plotted}
RememberKde(lr, query, plt, o, kde) ==
    IF plt /\ o # Raise THEN Remember(lr, KdeKey(query), kde) ELSE lr

(***************************************************************************)
(* Initial state: a dataframe is loaded, nothing has been called           *)
(***************************************************************************)
Init ==
    /\ df \in Datasets
    /\ handlers = [n \in LoggerNames |-> <<>>]
    /\ libResults = <<>>
    /\ pc = "idle"
    /\ plot = FALSE
    /\ query1 = <<>>
    /\ query2 = <<>>
    /\ normality1 = FALSE
    /\ normality2 = FALSE
    /\ homogeneity = FALSE
    /\ result = FALSE
    /\ raised = FALSE
    /\ calls = <<>>
    /\ log = <<>>
    /\ ncalls = 0
    /\ seen = <<>>
    /\ stable = TRUE

(***************************************************************************)
(* apply_ab_test, statement by statement                                   *)
(***************************************************************************)
\* an exception leaving a step leaves apply_ab_test as well
Propagate ==
    /\ pc' = "idle"
    /\ raised' = TRUE
    /\ UNCHANGED <<query1, query2, normality1, normality2, homogeneity, result>>

\* setup_logger, then the two samples are extracted
AbStart(col_value1, col_value2, plt) ==
    /\ pc = "idle"
    /\ ncalls < MaxCalls
    /\ ncalls' = ncalls + 1
    /\ handlers' = setup_logger(ModuleLogger, handlers)
    /\ query1' = Extract(df, col_value1)
    /\ query2' = Extract(df, col_value2)
    /\ plot' = plt
    /\ normality1' = FALSE
    /\ normality2' = FALSE
    /\ homogeneity' = FALSE
    /\ result' = FALSE
    /\ raised' = FALSE
    /\ calls' = <<>>
    /\ log' = <<>>
    /\ pc' = "norm1"
    /\ UNCHANGED <<df, libResults, seen, stable>>

\* variant: or instead of and
NormalityAny == normality1 \/ normality2

\* normality = normality1 and normality2
Normality == normality1 /\ normality2

AbNormality1 ==
    /\ pc = "norm1"
    /\ \E o \in LibOutcomes(LibKey("shapiro", <<query1>>, FALSE)) :
       \E kde \in KdeOutcomes(query1, plot, o) :
          LET r == check_normality(query1, plot, o, kde, handlers)
          IN  /\ libResults' = RememberKde(Remember(libResults, r.lib, o),
                                           query1, plot, o, kde)
              /\ log' = Append(log, Emit(handlers, "INFO",
                                         "Checking normal distribution 1"))
                            \o r.logs
              /\ calls' = Append(calls, Noted(r))
              /\ handlers' = r.handlers
              /\ Observe(r)
              /\ IF r.exc
                 THEN Propagate
                 ELSE /\ normality1' = r.ret
                      /\ query1' = r.after[1]
                      /\ pc' = "norm2"
                      /\ UNCHANGED <<query2, normality2, homogeneity, result,
                                     raised>>
    /\ UNCHANGED <<df, plot, ncalls>>

AbNormality2Run ==
    /\ pc = "norm2"
    /\ \E o \in LibOutcomes(LibKey("shapiro", <<query2>>, FALSE)) :
       \E kde \in KdeOutcomes(query2, plot, o) :
          LET r == check_normality(query2, plot, o, kde, handlers)
          IN  /\ libResults' = RememberKde(Remember(libResults, r.lib, o),
                                           query2, plot, o, kde)
              /\ log' = Append(log, Emit(handlers, "INFO",
                                         "Checking normal distribution 2"))
                            \o r.logs
              /\ calls' = Append(calls, Noted(r))
              /\ handlers' = r.handlers
              /\ Observe(r)
              /\ IF r.exc
                 THEN Propagate
                 ELSE /\ normality2' = r.ret
                      /\ query2' = r.after[1]
                      /\ pc' = "homog"
                      /\ UNCHANGED <<query1, normality1, homogeneity, result,
                                     raised>>
    /\ UNCHANGED <<df, plot, ncalls>>

\* variant: the second check is skipped when the first returned false
AbNormality2ShortCircuit ==
    IF normality1
    THEN AbNormality2Run
    ELSE /\ pc = "norm2"
         /\ pc' = "homog"
         /\ UNCHANGED <<df, handlers, libResults, plot, query1, query2,
                        normality1, normality2, homogeneity, result, raised,
                        calls, log, ncalls, seen, stable>>

AbNormality2 == AbNormality2Run

\* the homogeneity check is not conditional on normality
AbHomogeneityRun ==
    /\ pc = "homog"
    /\ \E o \in LibOutcomes(LibKey("levene", <<query1, query2>>, FALSE)) :
          LET r == check_homogeneity(query1, query2, o, handlers)
          IN  /\ libResults' = Remember(libResults, r.lib, o)
              /\ log' = Append(log, Emit(handlers, "INFO",
                                         "Checking variance homogeneity"))
                            \o r.logs
              /\ calls' = Append(calls, Noted(r))
              /\ handlers' = r.handlers
              /\ Observe(r)
              /\ IF r.exc
                 THEN Propagate
                 ELSE /\ homogeneity' = r.ret
                      /\ query1' = r.after[1]
                      /\ query2' = r.after[2]
                      /\ pc' = "compare"
                      /\ UNCHANGED <<normality1, normality2, result, raised>>
    /\ UNCHANGED <<df, plot, ncalls>>

\* variant: the homogeneity check runs only when both samples are normal
AbHomogeneityIfNormal ==
    IF Normality
    THEN AbHomogeneityRun
    ELSE /\ pc = "homog"
         /\ pc' = "compare"
         /\ UNCHANGED <<df, handlers, libResults, plot, query1, query2,
                        normality1, normality2, homogeneity, result, raised,
                        calls, log, ncalls, seen, stable>>

AbHomogeneity == AbHomogeneityRun

\* apply_parametric(...) if normality else apply_nonparametric(...)
Comparator(o) ==
    IF Normality
    THEN apply_parametric(query1, query2, homogeneity, o, handlers)
    ELSE apply_nonparametric(query1, query2, o, handlers)

ComparatorKey ==
    IF Normality
    THEN ParametricKey(query1, query2, homogeneity)
    ELSE LibKey("mannwhitneyu", <<query1, query2>>, FALSE)

AbCompare ==
    /\ pc = "compare"
    /\ \E o \in LibOutcomes(ComparatorKey) :
          LET r == Comparator(o)
          IN  /\ libResults' = Remember(libResults, r.lib, o)
              /\ log' = log \o r.logs
              /\ calls' = Append(calls, Noted(r))
              /\ handlers' = r.handlers
              /\ Observe(r)
              /\ IF r.exc
                 THEN Propagate
                 ELSE /\ result' = r.ret
                      /\ query1' = r.after[1]
                      /\ query2' = r.after[2]
                      /\ pc' = "return"
                      /\ UNCHANGED <<normality1, normality2, homogeneity,
                                     raised>>
    /\ UNCHANGED <<df, plot, ncalls>>

\* return result
AbReturn ==
    /\ pc = "return"
    /\ pc' = "idle"
    /\ UNCHANGED <<df, handlers, libResults, plot, query1, query2, normality1,
                   normality2, homogeneity, result, raised, calls, log, ncalls,
                   seen, stable>>

(***************************************************************************)
(* The functions called on their own, on samples of the dataframe          *)
(***************************************************************************)
Direct(r) ==
    /\ ncalls' = ncalls + 1
    /\ calls' = <<Noted(r)>>
    /\ log' = r.logs
    /\ handlers' = r.handlers
    /\ raised' = r.exc
    /\ Observe(r)
    /\ UNCHANGED <<df, pc, plot, query1, query2, normality1, normality2,
                   homogeneity, result>>

CallCheckNormality(g, plt) ==
    /\ pc = "idle"
    /\ ncalls < MaxCalls
    /\ LET query == Extract(df, g)
       IN  \E o \in LibOutcomes(LibKey("shapiro", <<query>>, FALSE)) :
           \E kde \in KdeOutcomes(query, plt, o) :
              LET r == check_normality(query, plt, o, kde, handlers)
              IN  /\ libResults' = RememberKde(Remember(libResults, r.lib, o),
                                               query, plt, o, kde)
                  /\ Direct(r)

CallCheckHomogeneity(g1, g2) ==
    /\ pc = "idle"
    /\ ncalls < MaxCalls
    /\ LET q1 == Extract(df, g1)
           q2 == Extract(df, g2)
       IN  \E o \in LibOutcomes(LibKey("levene", <<q1, q2>>, FALSE)) :
              LET r == check_homogeneity(q1, q2, o, handlers)
              IN  /\ libResults' = Remember(libResults, r.lib, o)
                  /\ Direct(r)

CallApplyParametric(g1, g2, homogen) ==
    /\ pc = "idle"
    /\ ncalls < MaxCalls
    /\ LET q1 == Extract(df, g1)
           q2 == Extract(df, g2)
       IN  \E o \in LibOutcomes(ParametricKey(q1, q2, homogen)) :
              LET r == apply_parametric(q1, q2, homogen, o, handlers)
              IN  /\ libResults' = Remember(libResults, r.lib, o)
                  /\ Direct(r)

CallApplyNonparametric(g1, g2) ==
    /\ pc = "idle"
    /\ ncalls < MaxCalls
    /\ LET q1 == Extract(df, g1)
           q2 == Extract(df, g2)
       IN  \E o \in LibOutcomes(LibKey("mannwhitneyu", <<q1, q2>>, FALSE)) :
              LET r == apply_nonparametric(q1, q2, o, handlers)
              IN  /\ libResults' = Remember(libResults, r.lib, o)
                  /\ Direct(r)

CallSetupLogger(name) ==
    /\ pc = "idle"
    /\ ncalls < MaxCalls
    /\ ncalls' = ncalls + 1
    /\ handlers' = setup_logger(name, handlers)
    /\ calls' = <<StepResult("setup_logger", <<name>>, FALSE, <<>>, NoTest,
                              FALSE, FALSE, <<>>, handlers', <<name>>)>>
    /\ log' = <<>>
    /\ raised' = FALSE
    /\ UNCHANGED <<df, libResults, pc, plot, query1, query2, normality1,
                   normality2, homogeneity, result, seen, stable>>

AbStep ==
    \/ AbNormality1
    \/ AbNormality2
    \/ AbHomogeneity
    \/ AbCompare
    \/ AbReturn

\* apply_ab_test alone, called again and again, with either value of plot
NextPipeline ==
    \/ \E gp \in GroupPairs, plt \in BOOLEAN :
          ncalls < MaxInvocations /\ AbStart(gp[1], gp[2], plt)
    \/ AbNormality1
    \/ AbNormality2
    \/ AbHomogeneity
    \/ AbCompare
    \/ AbReturn

\* every function of the module, in any order; apply_ab_test with its
\* default plot=False
Next ==
    \/ \E gp \in GroupPairs : AbStart(gp[1], gp[2], FALSE)
    \/ AbNormality1
    \/ AbNormality2
    \/ AbHomogeneity
    \/ AbCompare
    \/ AbReturn
    \/ \E g \in Groups, plt \in BOOLEAN : CallCheckNormality(g, plt)
    \/ \E gp \in GroupPairs : CallCheckHomogeneity(gp[1], gp[2])
    \/ \E gp \in GroupPairs, h \in BOOLEAN :
          CallApplyParametric(gp[1], gp[2], h)
    \/ \E gp \in GroupPairs : CallApplyNonparametric(gp[1], gp[2])
    \/ \E name \in LoggerNames : CallSetupLogger(name)

Spec == Init /\ [][Next]_vars

\* the pipeline is synchronous: a started apply_ab_test runs to its return
PipelineSpec == Init /\ [][NextPipeline]_vars /\ WF_vars(AbStep)

(***************************************************************************)
(* Properties                                                              *)
(***************************************************************************)
DecisionSteps == {"check_normality", "check_homogeneity", "apply_parametric",
                  "apply_nonparametric"}
Comparators == {"apply_parametric", "apply_nonparametric"}
Decisions == {i \in 1..Len(calls) : calls[i].fn \in DecisionSteps}
ComparatorCalls == {i \in 1..Len(calls) : calls[i].fn \in Comparators}
HomogeneityCalls == {i \in 1..Len(calls) : calls[i].fn = "check_homogeneity"}
InPipeline == pc # "idle"
LoggedError(c) == \E j \in 1..Len(c.logs) : c.logs[j].level = "ERROR"
Logged(msg) == \E j \in 1..Len(log) : log[j].msg = msg
\* p_value >= t as the claims read it: false when p_value is NaN
Ge(o, t) == o.kind = "num" /\ o.p >= t
SmallSample(c) == c.fn = "check_normality" /\ Len(c.args[1]) < ShapiroMinLen

\* C1: in every decision step whose test returned a p-value, the verdict is
\* (p_value >= 0.05); a NaN p-value does not yield true.
VerdictIsThreshold ==
    \A i \in Decisions :
        calls[i].out # Raise => calls[i].ret = Ge(calls[i].out, Threshold)

\* C2: when apply_ab_test returns, exactly one comparator has run, its
\* verdict is the returned value, and it is apply_parametric exactly when both
\* normality checks returned true, apply_nonparametric otherwise.
ExactlyOneComparator ==
    /\ pc \in {"norm1", "norm2", "homog", "compare"} => ComparatorCalls = {}
    /\ pc = "return" =>
          /\ Cardinality(ComparatorCalls) = 1
          /\ \A i \in ComparatorCalls :
                /\ calls[i].ret = result
                /\ calls[i].fn = "apply_parametric"
                      <=> (calls[1].ret /\ calls[2].ret)
                /\ calls[i].fn = "apply_nonparametric"
                      <=> ~(calls[1].ret /\ calls[2].ret)

\* C2 witness: the non-parametric comparator ran because the first normality
\* check failed safe, and apply_ab_test returns its verdict.
NonparametricAfterFailSafe ==
    /\ pc = "return"
    /\ calls[1].out = Raise
    /\ calls[2].ret
    /\ calls[4].fn = "apply_nonparametric"
    /\ result = calls[4].ret

FailSafeOnNumericalFailure ==
    \A i \in Decisions :
        calls[i].out \in {Raise, NaNResult} =>
            /\ calls[i].ret = FALSE
            /\ ~calls[i].exc
            /\ LoggedError(calls[i])

\* C5: a started apply_ab_test reaches its return statement with a boolean
\* result, no exception having escaped.
AbTestTerminates ==
    (pc = "norm1") ~> (pc = "return" /\ ~raised /\ result \in BOOLEAN)

\* C5 witness: apply_ab_test returns after every one of its steps failed.
ReturnsAfterAllFailed ==
    /\ pc = "return"
    /\ \A i \in 1..4 : calls[i].out = Raise
    /\ result = FALSE

\* C6 as stated: check_normality on a sample of fewer than 3 observations
\* lets the error surface to its caller.
SmallSampleSurfaces ==
    \A i \in 1..Len(calls) : SmallSample(calls[i]) => calls[i].exc

\* C6 amended: check_normality on a sample of fewer than 3 observations (the
\* test raises) logs an error and returns false; nothing surfaces.
SmallSampleFailSafe ==
    \A i \in 1..Len(calls) :
        SmallSample(calls[i]) =>
            /\ calls[i].out = Raise
            /\ ~calls[i].exc
            /\ calls[i].ret = FALSE
            /\ LoggedError(calls[i])
            /\ ~raised

\* C6 witness: check_normality has returned false on an empty sample.
EmptySampleChecked ==
    \E i \in 1..Len(calls) :
        /\ calls[i].fn = "check_normality"
        /\ calls[i].args = <<<<>>>>
        /\ calls[i].ret = FALSE

EqualVarIsHomogeneity ==
    pc = "return" =>
        \A i \in ComparatorCalls :
            calls[i].fn = "apply_parametric" =>
                /\ calls[3].fn = "check_homogeneity"
                /\ calls[3].args = calls[i].args
                /\ calls[i].lib = LibKey("ttest_ind", calls[i].args, calls[3].ret)

\* C8 witness: Welch's variant was run because check_homogeneity failed safe.
WelchAfterFailSafe ==
    /\ pc = "return"
    /\ calls[3].out = Raise
    /\ calls[4].fn = "apply_parametric"
    /\ calls[4].lib[3] = FALSE

\* C9: apply_ab_test runs check_normality on the first sample, then on the
\* second (run and logged whatever the first returned), and a comparator
\* only after both.
StrictOrder ==
    /\ pc = "norm1" => calls = <<>>
    /\ pc \in {"norm2", "homog", "compare", "return"} =>
          /\ Len(calls) >= 1
          /\ calls[1].fn = "check_normality"
          /\ calls[1].args = <<query1>>
          /\ log[1].msg = "Checking normal distribution 1"
    /\ pc = "norm2" => Len(calls) = 1
    /\ pc \in {"homog", "compare", "return"} =>
          /\ Len(calls) >= 2
          /\ calls[2].fn = "check_normality"
          /\ calls[2].args = <<query2>>
          /\ Logged("Checking normal distribution 2")
    /\ InPipeline => \A i \in ComparatorCalls : i > 2

\* C9 witness: the first check returned false and the second one ran.
SecondCheckAfterFalse ==
    /\ pc = "homog"
    /\ ~calls[1].ret
    /\ calls[2].fn = "check_normality"
    /\ calls[2].out # Raise

\* C10: once setup_logger has been called, the module logger has exactly
\* one handler, no other logger has been touched, and every record was
\* emitted once.
OneHandler ==
    ncalls > 0 =>
        /\ Len(handlers[ModuleLogger]) = 1
        /\ \A n \in LoggerNames \ {ModuleLogger} : handlers[n] = <<>>
        /\ \A j \in 1..Len(log) : log[j].copies = 1

\* C10 witness: setup_logger was called with another name, after an earlier
\* call had configured the logger.
SetupWithOtherName ==
    /\ ncalls >= 2
    /\ Len(calls) = 1
    /\ calls[1].fn = "setup_logger"
    /\ calls[1].args = <<"other">>
====
